---- MODULE Spec2Model ----
(***************************************************************************)
(* ReceiptPraiser, src/server.js: the POST /analyze handler, the Gemini    *)
(* client callGemini and the reply extractor extractJsonMaybe.             *)
(*                                                                         *)
(* A text is a sequence of characters, each a one-character string; the    *)
(* backtick, which a TLA+ string cannot hold, is the element Backtick.     *)
(* JavaScript's null and undefined are the sentinels Null and Undefined,   *)
(* which are no texts.                                                     *)
(***************************************************************************)
EXTENDS Integers, Sequences, FiniteSets, TLC

VARIABLES
    pc,          \* where the request is: idle, awaitFetch, awaitText, awaitJson, done
    apiKey,      \* whether GOOGLE_API_KEY is set
    hasFile,     \* whether req.file is there
    timer,       \* the timeout timer: unset, armed, fired, cleared
    aborted,     \* ac.signal.aborted
    fetchCalls,  \* the number of calls of fetch
    httpStatus,  \* res.status of the upstream response (0: none yet)
    errText,     \* t, the text of an upstream response that is not ok
    body,        \* data, the JSON body of an upstream response that is ok
    rawText,     \* what callGemini returned
    cleaned,     \* what extractJsonMaybe returned
    res          \* the response sent

vars == <<pc, apiKey, hasFile, timer, aborted, fetchCalls, httpStatus, errText,
          body, rawText, cleaned, res>>

Backtick == "U+0060"
Null == <<"<null>">>
Undefined == <<"<undefined>">>

----------------------------------------------------------------------------
(* Bounds of the model. *)

\* Texts handed to the extractor alone are built from at most MaxSegs segments.
MaxSegs == 4
\* An upstream body carries at most MaxParts content parts.
MaxParts == 2

----------------------------------------------------------------------------
(* String primitives of the JavaScript runtime, as the code uses them. *)

\* The characters String.prototype.trim strips and the regex class \s matches
\* (those of them the model's texts use).
IsSpace(c) == c \in {" ", "\n", "\t", "\r"}

\* !text : undefined, null and the empty string are falsy.
Falsy(text) == text = Undefined \/ text = Null \/ text = <<>>

\* text.slice(from, to) with 0-based from (inclusive) and to (exclusive).
Slice(text, from, to) == SubSeq(text, from + 1, to)

RECURSIVE TrimLeft(_)
TrimLeft(text) ==
    IF text # <<>> /\ IsSpace(Head(text)) THEN TrimLeft(Tail(text)) ELSE text

RECURSIVE TrimRight(_)
TrimRight(text) ==
    IF text # <<>> /\ IsSpace(text[Len(text)])
    THEN TrimRight(SubSeq(text, 1, Len(text) - 1))
    ELSE text

\* text.trim()
Trim(text) == TrimRight(TrimLeft(text))

\* A slip of indexOf: the last occurrence instead of the first.
IndexOfLastSlip(text, c) ==
    IF \E i \in 1..Len(text) : text[i] = c
    THEN (CHOOSE i \in 1..Len(text) :
              text[i] = c /\ \A k \in (i + 1)..Len(text) : text[k] # c) - 1
    ELSE -1

\* text.indexOf(c): 0-based index of the first occurrence, -1 when absent.
IndexOf(text, c) ==
    IF \E i \in 1..Len(text) : text[i] = c
    THEN (CHOOSE i \in 1..Len(text) :
              text[i] = c /\ \A k \in 1..(i - 1) : text[k] # c) - 1
    ELSE -1

\* text.lastIndexOf(c): 0-based index of the last occurrence, -1 when absent.
LastIndexOf(text, c) ==
    IF \E i \in 1..Len(text) : text[i] = c
    THEN (CHOOSE i \in 1..Len(text) :
              text[i] = c /\ \A k \in (i + 1)..Len(text) : text[k] # c) - 1
    ELSE -1

----------------------------------------------------------------------------
(* The regular expression /```(?:json)?\s*([\s\S]*?)\s*```/i of             *)
(* extractJsonMaybe, matched as a backtracking matcher does: the leftmost   *)
(* start, the optional tag taken first, the first \s* greedy, the group     *)
(* lazy.  Positions are 1-based.                                            *)

Least(S) == CHOOSE x \in S : \A y \in S : x <= y

\* Three backticks at position i.
Ticks(text, i) ==
    /\ i >= 1
    /\ i + 2 <= Len(text)
    /\ text[i] = Backtick /\ text[i + 1] = Backtick /\ text[i + 2] = Backtick

\* "json" at position i, in any letter case (the i flag).
JsonTag(text, i) ==
    /\ i >= 1
    /\ i + 3 <= Len(text)
    /\ text[i] \in {"j", "J"} /\ text[i + 1] \in {"s", "S"}
    /\ text[i + 2] \in {"o", "O"} /\ text[i + 3] \in {"n", "N"}

\* The position after the longest run of \s from position i.
RECURSIVE SkipSpace(_, _)
SkipSpace(text, i) ==
    IF i <= Len(text) /\ IsSpace(text[i]) THEN SkipSpace(text, i + 1) ELSE i

\* \s*``` matches from position e.
ClosingAt(text, e) == Ticks(text, SkipSpace(text, e))

\* ([\s\S]*?)\s*``` from position g: the lazy group takes the fewest characters;
\* the position after the group, or 0 when nothing matches.
GroupEnd(text, g) ==
    LET ends == {e \in g..(Len(text) + 1) : ClosingAt(text, e)}
    IN  IF ends = {} THEN 0 ELSE Least(ends)

NoMatch == [found |-> FALSE, group |-> <<>>]

\* \s*([\s\S]*?)\s*``` from position p with the first \s* taking w characters,
\* then fewer on failure.
RECURSIVE TrySpaces(_, _, _)
TrySpaces(text, p, w) ==
    LET e == GroupEnd(text, p + w)
    IN  IF e # 0 THEN [found |-> TRUE, group |-> SubSeq(text, p + w, e - 1)]
        ELSE IF w = 0 THEN NoMatch
        ELSE TrySpaces(text, p, w - 1)

AfterTag(text, p) == TrySpaces(text, p, SkipSpace(text, p) - p)

\* The match anchored at position i.
MatchAt(text, i) ==
    IF ~Ticks(text, i) THEN NoMatch
    ELSE IF JsonTag(text, i + 3)
         THEN LET tagged == AfterTag(text, i + 7)
              IN  IF tagged.found THEN tagged ELSE AfterTag(text, i + 3)
         ELSE AfterTag(text, i + 3)

\* text.match(re): the match at the leftmost position that has one; found is
\* "the result is not null", group is fence[1].
FenceMatch(text) ==
    LET starts == {i \in 1..Len(text) : MatchAt(text, i).found}
    IN  IF starts = {} THEN NoMatch ELSE MatchAt(text, Least(starts))

----------------------------------------------------------------------------
(* extractJsonMaybe *)

\* A slip of the extractor: the brace range is tried before the fence.
ExtractBracesFirst(text) ==
    IF Falsy(text) THEN Null
    ELSE LET fence == FenceMatch(text)
             first == IndexOf(text, "{")
             last  == LastIndexOf(text, "}")
         IN  IF first # -1 /\ last # -1 /\ last > first
             THEN Trim(Slice(text, first, last + 1))
             ELSE IF fence.found /\ fence.group # <<>> THEN Trim(fence.group)
             ELSE Null

extractJsonMaybe(text) ==
    IF Falsy(text) THEN Null
    ELSE LET fence == FenceMatch(text)
             first == IndexOf(text, "{")
             last  == LastIndexOf(text, "}")
         IN  IF fence.found /\ fence.group # <<>> THEN Trim(fence.group)
             ELSE IF first # -1 /\ last # -1 /\ last > first
             THEN Trim(Slice(text, first, last + 1))
             ELSE Null

----------------------------------------------------------------------------
(* JSON.parse, on texts of the model's alphabet: objects, arrays, strings   *)
(* (with the escapes \" \\ \/ \n \t \r \b \f), integers and the literals    *)
(* true, false, null.  The model's texts hold no \u escape, fraction or     *)
(* exponent.  A parsed value is a record of one shape for every             *)
(* kind: t the kind, s the characters of a string, number or literal,       *)
(* items the elements of an array, m the <<key, value>> members of an       *)
(* object in insertion order.                                               *)

JVal(t, s, items, m) == [t |-> t, s |-> s, items |-> items, m |-> m]
JStr(s) == JVal("string", s, <<>>, <<>>)
JNum(s) == JVal("number", s, <<>>, <<>>)
JLit(s) == JVal("literal", s, <<>>, <<>>)
JArr(items) == JVal("array", <<>>, items, <<>>)
JObj(m) == JVal("object", <<>>, <<>>, m)

\* The outcome of a parsing step: ok, the position after what was read, the value.
Parsed(pos, val) == [ok |-> TRUE, pos |-> pos, val |-> val]
SyntaxError == [ok |-> FALSE, pos |-> 0, val |-> JLit(<<>>)]

\* The insignificant whitespace of JSON.
IsJsonWs(c) == c \in {" ", "\n", "\t", "\r"}

RECURSIVE SkipJsonWs(_, _)
SkipJsonWs(text, i) ==
    IF i <= Len(text) /\ IsJsonWs(text[i]) THEN SkipJsonWs(text, i + 1) ELSE i

IsDigit(c) == c \in {"0", "1", "2", "3", "4", "5", "6", "7", "8", "9"}

RECURSIVE SkipDigits(_, _)
SkipDigits(text, i) ==
    IF i <= Len(text) /\ IsDigit(text[i]) THEN SkipDigits(text, i + 1) ELSE i

\* The character an escape letter stands for; <<>> for no escape.
Unescape(c) ==
    CASE c = "\"" -> <<"\"">>
      [] c = "\\" -> <<"\\">>
      [] c = "/"  -> <<"/">>
      [] c = "n"  -> <<"\n">>
      [] c = "t"  -> <<"\t">>
      [] c = "r"  -> <<"\r">>
      [] c = "b"  -> <<"U+0008">>
      [] c = "f"  -> <<"U+000C">>
      [] OTHER    -> <<>>

\* The characters of a string from position i (after the opening quote) on.
RECURSIVE ParseChars(_, _, _)
ParseChars(text, i, acc) ==
    IF i > Len(text) THEN SyntaxError
    ELSE IF text[i] = "\"" THEN Parsed(i + 1, JStr(acc))
    ELSE IF text[i] \in {"\n", "\t", "\r"} THEN SyntaxError
    ELSE IF text[i] = "\\"
         THEN IF i + 1 > Len(text) \/ Unescape(text[i + 1]) = <<>>
              THEN SyntaxError
              ELSE ParseChars(text, i + 2, acc \o Unescape(text[i + 1]))
    ELSE ParseChars(text, i + 1, Append(acc, text[i]))

ParseString(text, i) ==
    IF i <= Len(text) /\ text[i] = "\"" THEN ParseChars(text, i + 1, <<>>)
    ELSE SyntaxError

\* -?(0|[1-9][0-9]*)
ParseNumber(text, i) ==
    LET d == IF text[i] = "-" THEN i + 1 ELSE i
        e == SkipDigits(text, d)
    IN  IF e = d THEN SyntaxError
        ELSE IF text[d] = "0" /\ e > d + 1 THEN SyntaxError
        ELSE Parsed(e, JNum(SubSeq(text, i, e - 1)))

ParseLiteral(text, i, word) ==
    IF i + Len(word) - 1 <= Len(text) /\ SubSeq(text, i, i + Len(word) - 1) = word
    THEN Parsed(i + Len(word), JLit(word))
    ELSE SyntaxError

\* obj[key] = val on the members of an object: a repeated key keeps its place
\* and takes the later value.
RECURSIVE SetMember(_, _, _)
SetMember(m, key, val) ==
    IF m = <<>> THEN << <<key, val>> >>
    ELSE IF Head(m)[1] = key THEN << <<key, val>> >> \o Tail(m)
    ELSE << Head(m) >> \o SetMember(Tail(m), key, val)

RECURSIVE ParseValue(_, _)
RECURSIVE ParseMembers(_, _, _)
RECURSIVE ParseElements(_, _, _)

\* The members of an object from position i (at a key) on.
ParseMembers(text, i, acc) ==
    LET k == ParseString(text, i)
    IN  IF ~k.ok THEN SyntaxError
        ELSE LET c == SkipJsonWs(text, k.pos)
             IN  IF c > Len(text) \/ text[c] # ":" THEN SyntaxError
                 ELSE LET v == ParseValue(text, SkipJsonWs(text, c + 1))
                      IN  IF ~v.ok THEN SyntaxError
                          ELSE LET n == SkipJsonWs(text, v.pos)
                                   m == SetMember(acc, k.val.s, v.val)
                               IN  IF n > Len(text) THEN SyntaxError
                                   ELSE IF text[n] = "}" THEN Parsed(n + 1, JObj(m))
                                   ELSE IF text[n] = ","
                                        THEN ParseMembers(text, SkipJsonWs(text, n + 1), m)
                                   ELSE SyntaxError

\* The elements of an array from position i (at a value) on.
ParseElements(text, i, acc) ==
    LET v == ParseValue(text, i)
    IN  IF ~v.ok THEN SyntaxError
        ELSE LET n == SkipJsonWs(text, v.pos)
                 items == Append(acc, v.val)
             IN  IF n > Len(text) THEN SyntaxError
                 ELSE IF text[n] = "]" THEN Parsed(n + 1, JArr(items))
                 ELSE IF text[n] = ","
                      THEN ParseElements(text, SkipJsonWs(text, n + 1), items)
                 ELSE SyntaxError

\* The value at position i (no whitespace before it).
ParseValue(text, i) ==
    IF i > Len(text) THEN SyntaxError
    ELSE CASE text[i] = "{" ->
                  LET j == SkipJsonWs(text, i + 1)
                  IN  IF j <= Len(text) /\ text[j] = "}"
                      THEN Parsed(j + 1, JObj(<<>>))
                      ELSE ParseMembers(text, j, <<>>)
           [] text[i] = "[" ->
                  LET j == SkipJsonWs(text, i + 1)
                  IN  IF j <= Len(text) /\ text[j] = "]"
                      THEN Parsed(j + 1, JArr(<<>>))
                      ELSE ParseElements(text, j, <<>>)
           [] text[i] = "\"" -> ParseString(text, i)
           [] text[i] = "-" \/ IsDigit(text[i]) -> ParseNumber(text, i)
           [] text[i] = "t" -> ParseLiteral(text, i, <<"t", "r", "u", "e">>)
           [] text[i] = "f" -> ParseLiteral(text, i, <<"f", "a", "l", "s", "e">>)
           [] text[i] = "n" -> ParseLiteral(text, i, <<"n", "u", "l", "l">>)
           [] OTHER -> SyntaxError

\* JSON.parse(text): ok is "did not throw", val the value.
JSONParse(text) ==
    LET v == ParseValue(text, SkipJsonWs(text, 1))
    IN  IF v.ok /\ SkipJsonWs(text, v.pos) = Len(text) + 1 THEN v ELSE SyntaxError

----------------------------------------------------------------------------
(* The upstream service: status codes, error bodies and JSON bodies it may  *)
(* answer with.                                                             *)

Statuses == {200, 429, 500}

\* res.ok
IsOk(status) == status >= 200 /\ status <= 299

\* What res.text() yields for an error response.
ErrBodies == {"", "quota exceeded"}

\* No error text read.
NoText == "<none>"

\* e.message of a rejected fetch or body read.
NetworkErrors == {"fetch failed", "terminated"}
AbortMessage == "This operation was aborted"

\* Reply texts a content part may carry.
\* The generic document of the specification's end-to-end example.
TextObject ==
    <<"{", "\"", "d", "o", "c", "u", "m", "e", "n", "t", "_", "t", "y",
      "p", "e", "\"", ":", "\"", "o", "t", "h", "e", "r", "\"", ",", "\"",
      "t", "i", "t", "l", "e", "\"", ":", "\"", "T", "\"", ",", "\"", "s",
      "u", "m", "m", "a", "r", "y", "\"", ":", "\"", "S", "\"", ",", "\"",
      "n", "o", "t", "e", "s", "\"", ":", "\"", "N", "\"", "}">>
\* Prose without braces.
TextProse ==
    <<"N", "o", " ", "r", "e", "c", "e", "i", "p", "t", " ", "h", "e", "r",
      "e">>
\* An object inside prose.
TextInProse ==
    <<"H", "e", "r", "e", " ", "i", "s", " ", "d", "a", "t", "a", ":", " ",
      "{", "\"", "a", "\"", ":", "1", "}", " ", "t", "h", "a", "n", "k",
      "s">>
\* A tagged fenced block.
TextFenced ==
    <<Backtick, Backtick, Backtick, "j", "s", "o", "n", "\n", "{", "\"",
      "a", "\"", ":", "1", "}", "\n", Backtick, Backtick, Backtick>>
\* Two unrelated brace pairs: the first-to-last slice is no JSON.
TextTwoBraces ==
    <<"{", "a", "}", " ", "o", "r", " ", "{", "b", "}">>
\* A JSON object one of whose strings holds a fenced block.
TextObjectWithFence ==
    <<"{", "\"", "n", "o", "t", "e", "s", "\"", ":", "\"", Backtick,
      Backtick, Backtick, "1", Backtick, Backtick, Backtick, "\"", "}">>
\* A fenced block with nothing in it, before an object.
TextEmptyFence ==
    <<Backtick, Backtick, Backtick, " ", Backtick, Backtick, Backtick, " ",
      "{", "\"", "a", "\"", ":", "1", "}">>
\* A JSON value that is no object.
TextNumber ==
    <<"7">>

PartTexts ==
    {<<>>, TextObject, TextProse, TextInProse, TextFenced, TextTwoBraces,
     TextObjectWithFence, TextEmptyFence, TextNumber}

\* A content part: its text, or Undefined when it has no text field.
Parts == PartTexts \cup {Undefined}

RECURSIVE SeqsUpTo(_, _)
SeqsUpTo(S, n) ==
    IF n = 0 THEN {<<>>}
    ELSE LET shorter == SeqsUpTo(S, n - 1)
         IN  shorter \cup {Append(q, x) : q \in shorter, x \in S}

Shapes ==
    {"null", "noCandidates", "emptyCandidates", "noContent", "noParts",
     "partsNotArray", "parts"}

\* The JSON bodies res.json() may yield: the shape down to the first candidate's
\* content.parts, and the parts when they are an array.
Body(shape, parts) == [shape |-> shape, parts |-> parts]
NoBody == Body("none", <<>>)
Bodies ==
    {Body(sh, <<>>) : sh \in Shapes \ {"parts"}}
        \cup {Body("parts", ps) : ps \in SeqsUpTo(Parts, MaxParts)}

StrNull ==
    <<"n", "u", "l", "l">>
StrEmptyObject ==
    <<"{", "}">>
StrEmptyCandidates ==
    <<"{", "\"", "c", "a", "n", "d", "i", "d", "a", "t", "e", "s", "\"",
      ":", "[", "]", "}">>
StrNoContent ==
    <<"{", "\"", "c", "a", "n", "d", "i", "d", "a", "t", "e", "s", "\"",
      ":", "[", "{", "}", "]", "}">>
StrNoParts ==
    <<"{", "\"", "c", "a", "n", "d", "i", "d", "a", "t", "e", "s", "\"",
      ":", "[", "{", "\"", "c", "o", "n", "t", "e", "n", "t", "\"", ":",
      "{", "}", "}", "]", "}">>
StrPartsNotArray ==
    <<"{", "\"", "c", "a", "n", "d", "i", "d", "a", "t", "e", "s", "\"",
      ":", "[", "{", "\"", "c", "o", "n", "t", "e", "n", "t", "\"", ":",
      "{", "\"", "p", "a", "r", "t", "s", "\"", ":", "\"", "x", "\"", "}",
      "}", "]", "}">>
StrPartsOpen ==
    <<"{", "\"", "c", "a", "n", "d", "i", "d", "a", "t", "e", "s", "\"",
      ":", "[", "{", "\"", "c", "o", "n", "t", "e", "n", "t", "\"", ":",
      "{", "\"", "p", "a", "r", "t", "s", "\"", ":", "[">>
StrPartsClose ==
    <<"]", "}", "}", "]", "}">>
StrTextOpen ==
    <<"{", "\"", "t", "e", "x", "t", "\"", ":", "\"">>
StrTextClose ==
    <<"\"", "}">>

\* JSON.stringify's escaping of the characters of a string.
EscapeChar(c) ==
    CASE c = "\"" -> <<"\\", "\"">>
      [] c = "\\" -> <<"\\", "\\">>
      [] c = "\n" -> <<"\\", "n">>
      [] c = "\t" -> <<"\\", "t">>
      [] c = "\r" -> <<"\\", "r">>
      [] OTHER -> <<c>>

RECURSIVE Escape(_)
Escape(text) ==
    IF text = <<>> THEN <<>>
    ELSE IF Len(text) = 1 THEN EscapeChar(text[1])
    ELSE LET half == Len(text) \div 2
         IN  Escape(SubSeq(text, 1, half)) \o Escape(SubSeq(text, half + 1, Len(text)))

StringifyPart(p) ==
    IF p = Undefined THEN StrEmptyObject
    ELSE StrTextOpen \o Escape(p) \o StrTextClose

RECURSIVE StringifyParts(_)
StringifyParts(ps) ==
    IF ps = <<>> THEN <<>>
    ELSE IF Len(ps) = 1 THEN StringifyPart(ps[1])
    ELSE StringifyPart(ps[1]) \o <<",">> \o StringifyParts(Tail(ps))

\* JSON.stringify(data)
Stringify(b) ==
    CASE b.shape = "null" -> StrNull
      [] b.shape = "noCandidates" -> StrEmptyObject
      [] b.shape = "emptyCandidates" -> StrEmptyCandidates
      [] b.shape = "noContent" -> StrNoContent
      [] b.shape = "noParts" -> StrNoParts
      [] b.shape = "partsNotArray" -> StrPartsNotArray
      [] OTHER -> StrPartsOpen \o StringifyParts(b.parts) \o StrPartsClose

\* Array.prototype.join("\n") over parts.map(p => p.text): undefined joins as
\* the empty string.
RECURSIVE JoinTexts(_)
JoinTexts(ps) ==
    IF ps = <<>> THEN <<>>
    ELSE LET t == IF ps[1] = Undefined THEN <<>> ELSE ps[1]
         IN  IF Len(ps) = 1 THEN t
             ELSE t \o <<"\n">> \o JoinTexts(Tail(ps))

\* data?.candidates?.[0]?.content?.parts?.map(p => p.text).join("\n") throws a
\* TypeError when parts is there and is no array.
MapThrows(b) == b.shape = "partsNotArray"

\* data?.candidates?.[0]?.content?.parts?.map(p => p.text).join("\n")
\*   || JSON.stringify(data)
ReplyText(b) ==
    LET joined == IF b.shape = "parts" THEN JoinTexts(b.parts) ELSE Undefined
    IN  IF Falsy(joined) THEN Stringify(b) ELSE joined

----------------------------------------------------------------------------
(* The request handler of POST /analyze and callGemini.  One request is     *)
(* followed from its arrival to its response; an action is what runs        *)
(* between two awaits.                                                      *)

\* The response sent: status 0 is "none yet"; error is the message as the
\* pieces it was concatenated from; data is the parsed document.
NoData == JVal("absent", <<>>, <<>>, <<>>)
NoResponse == [status |-> 0, ok |-> FALSE, error |-> <<>>, data |-> NoData]

\* res.status(code).json({ error: message })
ErrorResponse(code, message) ==
    [status |-> code, ok |-> FALSE, error |-> message, data |-> NoData]

\* res.json({ ok: true, data: parsed })
OkResponse(parsed) ==
    [status |-> 200, ok |-> TRUE, error |-> <<>>, data |-> parsed]

\* err.message || "Server error"
MessageOf(message) ==
    IF \A i \in 1..Len(message) : message[i] = "" THEN <<"Server error">>
    ELSE message

\* The catch of the handler.
ServerError(message) == ErrorResponse(500, MessageOf(message))

\* The catch of callGemini: new Error(`Gemini fetch failed: ${e.message}`).
FetchFailed(inner) == <<"Gemini fetch failed: ">> \o inner

\* new Error(`Gemini HTTP ${res.status}: ${t}`)
HttpError(status, t) == <<"Gemini HTTP ", ToString(status), ": ", t>>

KeyDocumentType == <<"d", "o", "c", "u", "m", "e", "n", "t", "_", "t", "y", "p", "e">>
KeyTitle == <<"t", "i", "t", "l", "e">>
KeySummary == <<"s", "u", "m", "m", "a", "r", "y">>
KeyNotes == <<"n", "o", "t", "e", "s">>
StrOther == <<"o", "t", "h", "e", "r">>
StrAnalysis == <<"A", "n", "a", "l", "y", "s", "i", "s">>

\* A slip of the fallback: notes takes the extracted candidate when there is one.
FallbackOfCandidate(raw, candidate) ==
    JObj(<< <<KeyDocumentType, JStr(StrOther)>>, <<KeyTitle, JStr(StrAnalysis)>>,
            <<KeySummary, JStr(<<>>)>>,
            <<KeyNotes, JStr(IF Falsy(candidate) THEN raw ELSE candidate)>> >>)

\* { document_type: "other", title: "Analysis", summary: "", notes: rawText }
Fallback(raw, candidate) ==
    JObj(<< <<KeyDocumentType, JStr(StrOther)>>, <<KeyTitle, JStr(StrAnalysis)>>,
            <<KeySummary, JStr(<<>>)>>, <<KeyNotes, JStr(raw)>> >>)

\* cleaned || rawText
ParseInput(raw, candidate) == IF Falsy(candidate) THEN raw ELSE candidate

\* A slip of the reply handling: a reply that does not parse is an error.
RespondStrict(raw, candidate) ==
    LET parsed == JSONParse(ParseInput(raw, candidate))
    IN  IF parsed.ok THEN OkResponse(parsed.val)
        ELSE ServerError(<<"Unexpected token in JSON">>)

\* try { parsed = JSON.parse(cleaned || rawText) } catch { parsed = fallback }
\* res.json({ ok: true, data: parsed })
Respond(raw, candidate) ==
    LET parsed == JSONParse(ParseInput(raw, candidate))
    IN  OkResponse(IF parsed.ok THEN parsed.val ELSE Fallback(raw, candidate))

Awaiting == {"awaitFetch", "awaitText", "awaitJson"}

Init ==
    /\ pc = "idle"
    /\ apiKey \in BOOLEAN
    /\ hasFile = FALSE
    /\ timer = "unset"
    /\ aborted = FALSE
    /\ fetchCalls = 0
    /\ httpStatus = 0
    /\ errText = NoText
    /\ body = NoBody
    /\ rawText = Undefined
    /\ cleaned = Undefined
    /\ res = NoResponse

\* A slip of the handler: the file is not looked at before the call.
HandleNoFileCheck(file) ==
    /\ pc = "idle"
    /\ hasFile' = file
    /\ IF ~apiKey
       THEN /\ pc' = "done"
            /\ res' = ServerError(<<"Missing GOOGLE_API_KEY">>)
            /\ UNCHANGED <<timer, fetchCalls>>
       ELSE /\ pc' = "awaitFetch"
            /\ timer' = "armed"
            /\ fetchCalls' = fetchCalls + 1
            /\ UNCHANGED res
    /\ UNCHANGED <<apiKey, aborted, httpStatus, errText, body, rawText, cleaned>>

\* A slip of callGemini: the credential is not looked at before the call.
HandleNoKeyCheck(file) ==
    /\ pc = "idle"
    /\ hasFile' = file
    /\ IF ~file
       THEN /\ pc' = "done"
            /\ res' = ErrorResponse(400, <<"No file uploaded">>)
            /\ UNCHANGED <<timer, fetchCalls>>
       ELSE /\ pc' = "awaitFetch"
            /\ timer' = "armed"
            /\ fetchCalls' = fetchCalls + 1
            /\ UNCHANGED res
    /\ UNCHANGED <<apiKey, aborted, httpStatus, errText, body, rawText, cleaned>>

\* The handler up to its first await: the file check, then callGemini up to
\* await fetch(...): the credential check, the timer, the request.
Handle(file) ==
    /\ pc = "idle"
    /\ hasFile' = file
    /\ IF ~file
       THEN /\ pc' = "done"
            /\ res' = ErrorResponse(400, <<"No file uploaded">>)
            /\ UNCHANGED <<timer, fetchCalls>>
       ELSE IF ~apiKey
       THEN /\ pc' = "done"
            /\ res' = ServerError(<<"Missing GOOGLE_API_KEY">>)
            /\ UNCHANGED <<timer, fetchCalls>>
       ELSE /\ pc' = "awaitFetch"
            /\ timer' = "armed"
            /\ fetchCalls' = fetchCalls + 1
            /\ UNCHANGED res
    /\ UNCHANGED <<apiKey, aborted, httpStatus, errText, body, rawText, cleaned>>

\* A request arrives, with or without a file field.
Post == \E file \in BOOLEAN : Handle(file)

\* fetch resolves with the response's status line and headers.
FetchResolves ==
    /\ pc = "awaitFetch"
    /\ ~aborted
    /\ \E status \in Statuses :
          /\ httpStatus' = status
          /\ pc' = IF IsOk(status) THEN "awaitJson" ELSE "awaitText"
    /\ UNCHANGED <<apiKey, hasFile, timer, aborted, fetchCalls, errText, body,
                   rawText, cleaned, res>>

\* callGemini fails with `message`: finally clears the timer, the handler's
\* catch answers 500.
Fail(message) ==
    /\ pc' = "done"
    /\ timer' = IF timer = "armed" THEN "cleared" ELSE timer
    /\ res' = ServerError(FetchFailed(message))
    /\ UNCHANGED <<apiKey, hasFile, aborted, fetchCalls, httpStatus, body,
                   rawText, cleaned>>

\* A slip of callGemini: a failed fetch is tried again.
FetchRejectsRetry ==
    /\ pc = "awaitFetch"
    /\ ~aborted
    /\ IF fetchCalls < 2
       THEN /\ fetchCalls' = fetchCalls + 1
            /\ UNCHANGED <<pc, apiKey, hasFile, timer, aborted, httpStatus,
                           errText, body, rawText, cleaned, res>>
       ELSE \E e \in NetworkErrors : Fail(<<e>>) /\ UNCHANGED errText

\* fetch rejects: a network failure.
FetchRejects ==
    /\ pc = "awaitFetch"
    /\ ~aborted
    /\ \E e \in NetworkErrors : Fail(<<e>>)
    /\ UNCHANGED errText

\* res.text() resolves for a response that is not ok: the error thrown is
\* caught by callGemini's own catch and wrapped.
TextResolves ==
    /\ pc = "awaitText"
    /\ ~aborted
    /\ \E t \in ErrBodies :
          /\ errText' = t
          /\ Fail(HttpError(httpStatus, t))

\* res.text() or res.json() rejects: the body cannot be read, or is no JSON.
BodyRejects ==
    /\ pc \in {"awaitText", "awaitJson"}
    /\ ~aborted
    /\ \E e \in NetworkErrors \cup {"Unexpected end of JSON input"} : Fail(<<e>>)
    /\ UNCHANGED errText

\* res.json() resolves with the body b; the reply text is taken from it,
\* callGemini returns, and the handler extracts, parses and responds.
Reply(b) ==
    /\ pc = "awaitJson"
    /\ ~aborted
    /\ body' = b
    /\ IF MapThrows(b)
       THEN /\ res' = ServerError(FetchFailed(<<"parts.map is not a function">>))
            /\ UNCHANGED <<rawText, cleaned>>
       ELSE /\ rawText' = ReplyText(b)
            /\ cleaned' = extractJsonMaybe(rawText')
            /\ res' = Respond(rawText', cleaned')
    /\ pc' = "done"
    /\ timer' = "cleared"
    /\ UNCHANGED <<apiKey, hasFile, aborted, fetchCalls, httpStatus, errText>>

JsonResolves == \E b \in Bodies : Reply(b)

\* A slip of the timer: it fires and aborts nothing.
TimerFiresNoAbort ==
    /\ timer = "armed"
    /\ pc \in Awaiting
    /\ timer' = "fired"
    /\ UNCHANGED <<pc, apiKey, hasFile, aborted, fetchCalls, httpStatus, errText,
                   body, rawText, cleaned, res>>

\* The 30-second timer fires while the call is in flight: ac.abort().
TimerFires ==
    /\ timer = "armed"
    /\ pc \in Awaiting
    /\ timer' = "fired"
    /\ aborted' = TRUE
    /\ UNCHANGED <<pc, apiKey, hasFile, fetchCalls, httpStatus, errText, body,
                   rawText, cleaned, res>>

\* The aborted signal rejects the pending fetch or body read.
AbortRejects ==
    /\ pc \in Awaiting
    /\ aborted
    /\ Fail(<<AbortMessage>>)
    /\ UNCHANGED errText

Next ==
    \/ Post
    \/ FetchResolves
    \/ FetchRejects
    \/ TextResolves
    \/ BodyRejects
    \/ JsonResolves
    \/ TimerFires
    \/ AbortRejects

Spec == Init /\ [][Next]_vars

\* The event loop runs a timer that is due and settles an aborted call.
FairSpec == Spec /\ WF_vars(TimerFires) /\ WF_vars(AbortRejects)

----------------------------------------------------------------------------
(* The extractor alone, on every text built from at most MaxSegs segments,  *)
(* and on null and undefined.                                               *)

Segments ==
    {<<Backtick, Backtick, Backtick>>, <<Backtick>>, <<"j", "s", "o", "n">>,
     <<"J", "S", "O", "N">>, <<"{">>, <<"}">>, <<" ">>, <<"\n">>, <<"a">>}

RECURSIVE SegTexts(_)
SegTexts(n) ==
    IF n = 0 THEN {<<>>}
    ELSE LET shorter == SegTexts(n - 1)
         IN  shorter \cup {t \o sg : t \in shorter, sg \in Segments}

ExtractInputs == SegTexts(MaxSegs) \cup {Null, Undefined}

ExtractInit ==
    /\ pc = "extract"
    /\ rawText \in ExtractInputs
    /\ cleaned = Undefined
    /\ apiKey = TRUE
    /\ hasFile = TRUE
    /\ timer = "unset"
    /\ aborted = FALSE
    /\ fetchCalls = 0
    /\ httpStatus = 0
    /\ errText = NoText
    /\ body = NoBody
    /\ res = NoResponse

\* const cleaned = extractJsonMaybe(rawText)
ExtractCall ==
    /\ pc = "extract"
    /\ cleaned' = extractJsonMaybe(rawText)
    /\ pc' = "extracted"
    /\ UNCHANGED <<apiKey, hasFile, timer, aborted, fetchCalls, httpStatus,
                   errText, body, rawText, res>>

ExtractSpec == ExtractInit /\ [][ExtractCall]_vars

----------------------------------------------------------------------------
(* The claims. *)

\* callGemini returned a raw reply to the handler.
Returned == rawText # Undefined

\* C1: a request that carries no file is answered 400 {error: "No file
\* uploaded"}, and no outbound call is ever issued for it: fetch is not called
\* and the request never waits on the upstream.
C1_NoFileIs400 ==
    ~hasFile =>
        /\ fetchCalls = 0
        /\ timer = "unset"
        /\ pc \notin Awaiting
        /\ pc = "done" =>
              /\ res.status = 400
              /\ res.error = <<"No file uploaded">>
              /\ ~res.ok

C1_Witness == pc = "done" /\ ~hasFile /\ res.status = 400 /\ fetchCalls = 0

\* C2: once the inference call has returned a raw reply, the request is
\* answered with the success envelope {ok: true, data: ...}, whatever the
\* extraction and the parse made of the reply; never with a 400 or a 500.
C2_ReplyIsSuccess ==
    Returned =>
        /\ pc = "done"
        /\ res.status = 200
        /\ res.ok
        /\ res.error = <<>>
        /\ res.data # NoData

\* A reply whose mis-sliced brace range does not parse was answered.
C2_Witness ==
    /\ pc = "done"
    /\ Returned
    /\ cleaned # Null
    /\ cleaned # rawText
    /\ ~JSONParse(cleaned).ok
    /\ res.status = 200

\* The fallback document of the specification, with r as its notes.
C3_Document(r) ==
    JObj(<< <<KeyDocumentType, JStr(StrOther)>>, <<KeyTitle, JStr(StrAnalysis)>>,
            <<KeySummary, JStr(<<>>)>>, <<KeyNotes, JStr(r)>> >>)

NoBraceNoFence(text) ==
    \A i \in 1..Len(text) : text[i] \notin {"{", "}", Backtick}

\* C3: when the text handed to the parser (the candidate, or the raw reply when
\* there is none) does not parse, the result is {document_type: "other",
\* title: "Analysis", summary: "", notes: R} with R the whole raw reply; so it
\* is for a reply without braces and fences that is no JSON.
C3_FallbackKeepsRawReply ==
    Returned =>
        /\ ~JSONParse(IF cleaned = Null THEN rawText ELSE cleaned).ok
              => res.data = C3_Document(rawText)
        /\ (NoBraceNoFence(rawText) /\ ~JSONParse(rawText).ok)
              => res.data = C3_Document(rawText)

\* The fallback was built for a reply whose candidate is a slice of it.
C3_Witness ==
    /\ pc = "done"
    /\ Returned
    /\ cleaned # Null
    /\ cleaned # rawText
    /\ ~JSONParse(cleaned).ok
    /\ res.data = C3_Document(rawText)

\* C4: when the reply text is itself a JSON object, the response is
\* {ok: true, data: D} with D the object the text denotes.
C4_JsonReplyIsData ==
    (Returned /\ JSONParse(rawText).ok /\ JSONParse(rawText).val.t = "object") =>
        /\ res.ok
        /\ res.data = JSONParse(rawText).val

\* C5: without a credential, no fetch is issued and no timer is started, and a
\* request that reaches the inference attempt ends with 500 {error: message}.
C5_NoKeyNoNetwork ==
    ~apiKey =>
        /\ fetchCalls = 0
        /\ timer = "unset"
        /\ pc \notin Awaiting
        /\ (pc = "done" /\ hasFile) =>
              /\ res.status = 500
              /\ res.error = <<"Missing GOOGLE_API_KEY">>
              /\ ~res.ok

C5_Witness == pc = "done" /\ ~apiKey /\ hasFile /\ res.status = 500

\* C6: a request that reached the inference step is answered in the end; when
\* the timer fires the call in flight is cancelled, and a cancelled call ends
\* the request with a 500.
C6_TimeoutEndsRequest ==
    /\ (pc \in Awaiting) ~> (pc = "done" /\ res.status # 0)
    /\ [](timer = "fired" => aborted)
    /\ []((aborted /\ pc = "done") =>
             (res.status = 500 /\ res.error = FetchFailed(<<AbortMessage>>)))

C6_Witness == pc = "done" /\ aborted /\ timer = "fired" /\ res.status = 500

\* Some ``` is followed by a later ```.
HasFence(text) ==
    \E i, j \in 1..Len(text) : Ticks(text, i) /\ Ticks(text, j) /\ j >= i + 3

\* The interior of the first fenced block: from after the first ```, and the
\* tag "json" when it stands there, up to the next ```.
FenceInterior(text) ==
    LET open  == Least({i \in 1..Len(text) : Ticks(text, i)})
        from  == IF JsonTag(text, open + 3) THEN open + 7 ELSE open + 3
        close == Least({j \in from..Len(text) : Ticks(text, j)})
    IN  SubSeq(text, from, close - 1)

\* The first "{" through the last "}", when some "{" stands before a "}".
BraceCandidate(text) ==
    LET opens  == {i \in 1..Len(text) : text[i] = "{"}
        closes == {j \in 1..Len(text) : text[j] = "}"}
    IN  IF \E i \in opens, j \in closes : i < j
        THEN Trim(SubSeq(text, Least(opens),
                         CHOOSE j \in closes : \A k \in closes : k <= j))
        ELSE Null

\* C7, as stated: for every text with a fenced block, extractJsonMaybe returns
\* the trimmed interior of the block.
C7_FenceAlways ==
    (pc = "extracted" /\ HasFence(rawText)) =>
        cleaned = Trim(FenceInterior(rawText))

\* C7, amended: for every text with a fenced block, extractJsonMaybe returns
\* the trimmed interior of the first block, before any braces, when that
\* interior is not empty; when it is empty or whitespace the fence is passed
\* over and the text is treated by the brace rules.
C7_FenceUnlessEmpty ==
    (pc = "extracted" /\ HasFence(rawText)) =>
        IF Trim(FenceInterior(rawText)) # <<>>
        THEN cleaned = Trim(FenceInterior(rawText))
        ELSE cleaned = BraceCandidate(rawText)

\* The fence won over a brace range of the same text.
C7_Witness ==
    /\ pc = "extracted"
    /\ HasFence(rawText)
    /\ cleaned = Trim(FenceInterior(rawText))
    /\ BraceCandidate(rawText) \notin {Null, cleaned}

\* C8: for a text without a fenced block, extractJsonMaybe returns the trimmed
\* range from the first "{" through the last "}" exactly when some "{" stands
\* before a "}", and no candidate otherwise; empty, null and undefined input
\* give no candidate.
C8_BraceRange ==
    pc = "extracted" =>
        /\ Falsy(rawText) => cleaned = Null
        /\ (~Falsy(rawText) /\ ~HasFence(rawText))
              => cleaned = BraceCandidate(rawText)

\* A brace range was cut out of a text that has more than one "{".
C8_Witness ==
    /\ pc = "extracted"
    /\ ~HasFence(rawText)
    /\ cleaned # Null
    /\ cleaned # rawText
    /\ Cardinality({i \in 1..Len(rawText) : rawText[i] = "{"}) > 1

\* The text segments of the first candidate's content parts.
TextSegments(b) ==
    IF b.shape = "parts"
    THEN SelectSeq(b.parts, LAMBDA p : p \notin {Undefined, <<>>})
    ELSE <<>>

RECURSIVE JoinLines(_)
JoinLines(ts) ==
    IF ts = <<>> THEN <<>>
    ELSE IF Len(ts) = 1 THEN ts[1]
    ELSE ts[1] \o <<"\n">> \o JoinLines(Tail(ts))

\* C9: the raw reply is the text segments of the first candidate's parts
\* joined by newlines; when there are none (no candidates, no parts, only
\* parts without text) it is the JSON body as a string.
C9_ReplyIsSegmentsOrBody ==
    Returned =>
        rawText = IF TextSegments(body) = <<>> THEN Stringify(body)
                  ELSE JoinLines(TextSegments(body))

Contains(message, piece) == \E i \in 1..Len(message) : message[i] = piece

\* C10: a request issues at most one outbound call; a failed attempt ends it
\* with a 500 and a message; after a response that is not ok the message holds
\* the status code and the text of the upstream body.
C10_NoRetry ==
    /\ fetchCalls <= 1
    /\ (pc = "done" /\ fetchCalls = 1 /\ ~Returned) =>
          (res.status = 500 /\ res.error # <<>> /\ ~res.ok)
    /\ errText # NoText =>
          /\ pc = "done"
          /\ res.status = 500
          /\ Contains(res.error, ToString(httpStatus))
          /\ Contains(res.error, errText)

C10_Witness ==
    /\ pc = "done"
    /\ fetchCalls = 1
    /\ httpStatus = 429
    /\ errText = "quota exceeded"
    /\ res.status = 500

====
